---- MODULE Spec2Model ----
(***************************************************************************)
(* tiledb/filter.py: FilterList, an ordered list of engine filter stages   *)
(* built from Python Filter objects by __post_init__ and append.           *)
(*                                                                         *)
(* State: the Python filter objects (class, level, window), and per        *)
(* FilterList the engine-side stage sequence, the dataclass field          *)
(* chunksize, the engine's max chunk size, and whether the list has been   *)
(* handed to an attribute of a schema; result is the last call and the     *)
(* exception it raised ("ok" for none).                                    *)
(*                                                                         *)
(* Spec is the docstring's scenario: two lists built from gzip_filter and  *)
(* bw_filter, which the caller may change in between.  SpecClasses is one  *)
(* list and filter objects of every class, before and after attachment.    *)
(***************************************************************************)
EXTENDS Integers, Sequences, FiniteSets, TLC

\* ---------------------------------------------------------------- bounds
\* Total number of engine filter stages created over a run.
MaxStages == 3

\* ---------------------------------------------------------------- inputs
ListIds == {"fl1", "fl2"}
ObjIds == {"a", "b"}
Levels == {-1, 5}
Windows == {8, 1024}
ChunkBytes == {4096}

\* Python's None and a present value, for optional arguments and fields.
None == <<>>
Some(x) == <<x>>

\* ------------------------------------------------------- class hierarchy
\* The 13 classes imported from .libtiledb that append's table lists.
CompressionClasses ==
    {"GzipFilter", "ZstdFilter", "LZ4Filter", "Bzip2Filter", "RleFilter",
     "DoubleDeltaFilter"}
WindowClasses == {"BitWidthReductionFilter", "PositiveDeltaFilter"}
PlainClasses ==
    {"BitShuffleFilter", "ByteShuffleFilter", "ChecksumMD5Filter",
     "ChecksumSHA256Filter", "NoOpFilter"}
ListedClasses == CompressionClasses \cup WindowClasses \cup PlainClasses

\* Every class an argument of append can have: the listed ones, the two
\* base classes, a user subclass of a listed class, and a non-filter.
Classes == ListedClasses \cup {"Filter", "CompressionFilter", "MyGzipFilter", "object"}

\* The classes of an object's method resolution order.
mro(cls) ==
    IF cls \in CompressionClasses THEN {cls, "CompressionFilter", "Filter", "object"}
    ELSE IF cls = "MyGzipFilter"
        THEN {cls, "GzipFilter", "CompressionFilter", "Filter", "object"}
    ELSE IF cls = "CompressionFilter" THEN {cls, "Filter", "object"}
    ELSE IF cls = "object" THEN {"object"}
    ELSE {cls, "Filter", "object"}

isinstance(f, C) == C \in mro(f.cls)

HasLevel(cls) == "CompressionFilter" \in mro(cls)
HasWindow(cls) == cls \in WindowClasses

\* A Python filter object; an attribute the class does not have is None.
FilterObjects(cls) ==
    { [cls |-> cls, level |-> lv, window |-> w] :
        lv \in (IF HasLevel(cls) THEN {Some(v) : v \in Levels} ELSE {None}),
        w \in (IF HasWindow(cls) THEN {Some(v) : v \in Windows} ELSE {None}) }

\* ------------------------------------------------------------ the engine
\* lt.FilterType
FilterType ==
    {"NONE", "GZIP", "ZSTD", "LZ4", "BZIP2", "RLE", "DOUBLE_DELTA",
     "BIT_WIDTH_REDUCTION", "BITSHUFFLE", "BYTESHUFFLE", "POSITIVE_DELTA",
     "CHECKSUM_MD5", "CHECKSUM_SHA256"}

\* lt.Filter(ctx, filtype) accepts a member of lt.FilterType only.
lt_Filter_accepts(filtype) == filtype \in {Some(k) : k \in FilterType}

\* Mutant: one engine filter per kind, reused by every append of that kind.
lt_Filter_interned(handle, filtype) ==
    [id |-> 0, kind |-> filtype[1], opts |-> {}]

\* lt.Filter(ctx, filtype): a new engine filter, the handle-th one created,
\* with no option set on it.
lt_Filter(handle, filtype) ==
    [id |-> handle, kind |-> filtype[1], opts |-> {}]

\* fil.set_option(ctx, option, value)
set_option(fil, option, value) ==
    [fil EXCEPT !.opts = {p \in @ : p[1] # option} \cup {<<option, value>>}]

\* self.add_filter(fil)
add_filter(stgs, fil) == Append(stgs, fil)

\* ---------------------------------------------------------------- append
\* The class-to-kind table of append; NoOpFilter maps to None.
filtype_cls_to_enum ==
    [cls \in ListedClasses |->
        CASE cls = "GzipFilter" -> Some("GZIP")
          [] cls = "ZstdFilter" -> Some("ZSTD")
          [] cls = "LZ4Filter" -> Some("LZ4")
          [] cls = "Bzip2Filter" -> Some("BZIP2")
          [] cls = "RleFilter" -> Some("RLE")
          [] cls = "DoubleDeltaFilter" -> Some("DOUBLE_DELTA")
          [] cls = "BitWidthReductionFilter" -> Some("BIT_WIDTH_REDUCTION")
          [] cls = "BitShuffleFilter" -> Some("BITSHUFFLE")
          [] cls = "ByteShuffleFilter" -> Some("BYTESHUFFLE")
          [] cls = "PositiveDeltaFilter" -> Some("POSITIVE_DELTA")
          [] cls = "ChecksumMD5Filter" -> Some("CHECKSUM_MD5")
          [] cls = "ChecksumSHA256Filter" -> Some("CHECKSUM_SHA256")
          [] cls = "NoOpFilter" -> None]

\* Mutant: the guard lets every argument through.
is_filter_any(f) == TRUE

\* The first statement of append: the argument must be a Filter.
is_filter(f) == isinstance(f, "Filter")

\* Mutant: the window of a bit-width-reduction filter is set under the
\* positive-delta option.
apply_options_one_window(fil, f) ==
    IF isinstance(f, "CompressionFilter")
        THEN set_option(fil, "COMPRESSION_LEVEL", f.level[1])
    ELSE IF isinstance(f, "BitWidthReductionFilter") \/ isinstance(f, "PositiveDeltaFilter")
        THEN set_option(fil, "POSITIVE_DELTA_MAX_WINDOW", f.window[1])
    ELSE fil

\* The isinstance dispatch that copies the argument's option onto fil.
apply_options(fil, f) ==
    IF isinstance(f, "CompressionFilter")
        THEN set_option(fil, "COMPRESSION_LEVEL", f.level[1])
    ELSE IF isinstance(f, "BitWidthReductionFilter")
        THEN set_option(fil, "BIT_WIDTH_MAX_WINDOW", f.window[1])
    ELSE IF isinstance(f, "PositiveDeltaFilter")
        THEN set_option(fil, "POSITIVE_DELTA_MAX_WINDOW", f.window[1])
    ELSE fil

Raised(err, stgs, handle) == [err |-> err, stages |-> stgs, next |-> handle]

\* The body of append on a list whose stages are stgs, when handle engine
\* filters exist already: the error raised (or "ok"), the stages afterwards
\* and the number of engine filters afterwards.
append_body(stgs, handle, f) ==
    IF ~is_filter(f) THEN Raised("ValueError", stgs, handle)
    ELSE IF f.cls \notin DOMAIN filtype_cls_to_enum THEN Raised("KeyError", stgs, handle)
    ELSE LET filtype == filtype_cls_to_enum[f.cls] IN
         IF ~lt_Filter_accepts(filtype) THEN Raised("TypeError", stgs, handle)
         ELSE LET fil == apply_options(lt_Filter(handle + 1, filtype), f) IN
              [err |-> "ok", stages |-> add_filter(stgs, fil), next |-> handle + 1]

\* ----------------------------------------------------------------- state
VARIABLES objs, pc, stages, chunksize, max_chunk_size, attached, nfilters, result
vars == <<objs, pc, stages, chunksize, max_chunk_size, attached, nfilters, result>>

\* Mutant: the loop skips an element whose append raises and goes on, and
\* reports the first error at the end.
RECURSIVE post_init_loop_goes_on(_, _, _, _)
post_init_loop_goes_on(stgs, handle, fs, i) ==
    IF i > Len(fs) THEN [err |-> "ok", stages |-> stgs, next |-> handle]
    ELSE LET r == append_body(stgs, handle, objs[fs[i]])
             rest == post_init_loop_goes_on(r.stages, r.next, fs, i + 1)
         IN IF r.err # "ok" THEN [rest EXCEPT !.err = r.err] ELSE rest

\* Mutant: the loop walks self.filters from its last element to its first.
RECURSIVE post_init_loop_reversed(_, _, _, _)
post_init_loop_reversed(stgs, handle, fs, i) ==
    IF i > Len(fs) THEN [err |-> "ok", stages |-> stgs, next |-> handle]
    ELSE LET r == append_body(stgs, handle, objs[fs[Len(fs) + 1 - i]]) IN
         IF r.err # "ok" THEN r
         ELSE post_init_loop_reversed(r.stages, r.next, fs, i + 1)

\* The loop of __post_init__ over self.filters from position i on.
RECURSIVE post_init_loop(_, _, _, _)
post_init_loop(stgs, handle, fs, i) ==
    IF i > Len(fs) THEN [err |-> "ok", stages |-> stgs, next |-> handle]
    ELSE LET r == append_body(stgs, handle, objs[fs[i]]) IN
         IF r.err # "ok" THEN r
         ELSE post_init_loop(r.stages, r.next, fs, i + 1)

\* __post_init__: a new, empty engine list, then the appends; a None or
\* empty filters argument is falsy and appends nothing.
post_init(filters) ==
    IF filters = None \/ filters[1] = <<>>
        THEN [err |-> "ok", stages |-> <<>>, next |-> nfilters]
    ELSE post_init_loop(<<>>, nfilters, filters[1], 1)

SeqsUpTo(S, n) == UNION { [1..k -> S] : k \in 0..n }

\* FilterList(filters, chunksize): the dataclass __init__ stores the fields,
\* then runs __post_init__. An exception leaves no list to the caller.
Construct(l, filters, cs) ==
    /\ pc[l] = "unborn"
    /\ LET r == post_init(filters) IN
        /\ pc' = [pc EXCEPT ![l] = IF r.err = "ok" THEN "ready" ELSE "raised"]
        /\ stages' = [stages EXCEPT ![l] = r.stages]
        /\ nfilters' = r.next
        /\ result' = [op |-> "FilterList", list |-> l, arg |-> "-", filters |-> filters,
                      err |-> r.err, sealed |-> FALSE]
    /\ chunksize' = [chunksize EXCEPT ![l] = cs]
    /\ UNCHANGED <<objs, max_chunk_size, attached>>

\* Mutant: append refuses a list that is attached to a schema.
append_rejects_attached(l, o) ==
    /\ pc[l] = "ready"
    /\ nfilters < MaxStages
    /\ LET r == IF attached[l] THEN Raised("ImmutableError", stages[l], nfilters)
                ELSE append_body(stages[l], nfilters, objs[o]) IN
        /\ stages' = [stages EXCEPT ![l] = r.stages]
        /\ nfilters' = r.next
        /\ result' = [op |-> "append", list |-> l, arg |-> o, filters |-> None,
                      err |-> r.err, sealed |-> attached[l]]
    /\ UNCHANGED <<objs, pc, chunksize, max_chunk_size, attached>>

\* fl.append(filter) on a constructed list.
append(l, o) ==
    /\ pc[l] = "ready"
    /\ nfilters < MaxStages
    /\ LET r == append_body(stages[l], nfilters, objs[o]) IN
        /\ stages' = [stages EXCEPT ![l] = r.stages]
        /\ nfilters' = r.next
        /\ result' = [op |-> "append", list |-> l, arg |-> o, filters |-> None,
                      err |-> r.err, sealed |-> attached[l]]
    /\ UNCHANGED <<objs, pc, chunksize, max_chunk_size, attached>>

\* The caller changes the level of a filter object it holds.
SetLevel(o, v) ==
    /\ objs[o].level # None
    /\ objs[o].level # Some(v)
    /\ objs' = [objs EXCEPT ![o].level = Some(v)]
    /\ result' = [op |-> "set_level", list |-> "-", arg |-> o, filters |-> None,
                  err |-> "ok", sealed |-> FALSE]
    /\ UNCHANGED <<pc, stages, chunksize, max_chunk_size, attached, nfilters>>

\* The caller changes the window of a filter object it holds.
SetWindow(o, v) ==
    /\ objs[o].window # None
    /\ objs[o].window # Some(v)
    /\ objs' = [objs EXCEPT ![o].window = Some(v)]
    /\ result' = [op |-> "set_window", list |-> "-", arg |-> o, filters |-> None,
                  err |-> "ok", sealed |-> FALSE]
    /\ UNCHANGED <<pc, stages, chunksize, max_chunk_size, attached, nfilters>>

\* tiledb.Attr(filters=fl) in a schema that is then created: the list is
\* attached to its owning schema.
Attach(l) ==
    /\ pc[l] = "ready"
    /\ ~attached[l]
    /\ attached' = [attached EXCEPT ![l] = TRUE]
    /\ result' = [op |-> "attach", list |-> l, arg |-> "-", filters |-> None,
                  err |-> "ok", sealed |-> TRUE]
    /\ UNCHANGED <<objs, pc, stages, chunksize, max_chunk_size, nfilters>>

NoLists ==
    /\ pc = [l \in ListIds |-> "unborn"]
    /\ stages = [l \in ListIds |-> <<>>]
    /\ chunksize = [l \in ListIds |-> None]
    /\ max_chunk_size = [l \in ListIds |-> None]
    /\ attached = [l \in ListIds |-> FALSE]
    /\ nfilters = 0
    /\ result = [op |-> "init", list |-> "-", arg |-> "-", filters |-> None,
                 err |-> "ok", sealed |-> FALSE]

\* The docstring's example: gzip_filter and bw_filter, used by two lists
\* that the caller builds while it may still change the two filter objects.
Init ==
    /\ objs \in { g \in [ObjIds -> UNION {FilterObjects(c) : c \in Classes}] :
                    /\ g["a"].cls = "GzipFilter"
                    /\ g["b"].cls = "BitWidthReductionFilter" }
    /\ NoLists

CtorArgs(n) == {None} \cup {Some(s) : s \in SeqsUpTo(ObjIds, n)}
ChunkArgs == {None} \cup {Some(n) : n \in ChunkBytes}

Next ==
    \/ \E l \in ListIds, cs \in ChunkArgs : \E fs \in CtorArgs(MaxStages - nfilters) :
            Construct(l, fs, cs)
    \/ \E l \in ListIds, o \in ObjIds : append(l, o)
    \/ \E o \in ObjIds, v \in Levels : SetLevel(o, v)
    \/ \E o \in ObjIds, v \in Windows : SetWindow(o, v)

Spec == Init /\ [][Next]_vars

\* One list, filter objects of every class: each class through append, before
\* and after the list is attached.
InitClasses ==
    /\ objs \in [ObjIds -> UNION {FilterObjects(c) : c \in Classes}]
    /\ NoLists

NextClasses ==
    \/ \E cs \in ChunkArgs : \E fs \in CtorArgs(MaxStages - nfilters) :
            Construct("fl1", fs, cs)
    \/ \E o \in ObjIds : append("fl1", o)
    \/ Attach("fl1")

SpecClasses == InitClasses /\ [][NextClasses]_vars

\* ------------------------------------------------------------ properties
\* The stage kind each listed class stands for, as the documentation of the
\* filter classes names them.
KindNamed(cls) ==
    CASE cls = "GzipFilter" -> "GZIP"
      [] cls = "ZstdFilter" -> "ZSTD"
      [] cls = "LZ4Filter" -> "LZ4"
      [] cls = "Bzip2Filter" -> "BZIP2"
      [] cls = "RleFilter" -> "RLE"
      [] cls = "DoubleDeltaFilter" -> "DOUBLE_DELTA"
      [] cls = "BitWidthReductionFilter" -> "BIT_WIDTH_REDUCTION"
      [] cls = "BitShuffleFilter" -> "BITSHUFFLE"
      [] cls = "ByteShuffleFilter" -> "BYTESHUFFLE"
      [] cls = "PositiveDeltaFilter" -> "POSITIVE_DELTA"
      [] cls = "ChecksumMD5Filter" -> "CHECKSUM_MD5"
      [] cls = "ChecksumSHA256Filter" -> "CHECKSUM_SHA256"
      [] cls = "NoOpFilter" -> "NONE"
      [] OTHER -> "?"

\* The classes whose instances append accepts and adds.
Appendable(cls) == cls \in ListedClasses \ {"NoOpFilter"}

\* t is s with exactly one stage added at the end.
Extends(s, t) == Len(t) = Len(s) + 1 /\ SubSeq(t, 1, Len(s)) = s

Kinds(stgs) == [i \in 1..Len(stgs) |-> stgs[i].kind]

\* The step is the call l.append(o), FilterList(...) making l.
AppendStep(l, o) ==
    /\ pc[l] = "ready" /\ nfilters < MaxStages
    /\ result'.op = "append" /\ result'.list = l /\ result'.arg = o
    /\ result'.sealed = attached[l]
ConstructStep(l) ==
    pc[l] = "unborn" /\ result'.op = "FilterList" /\ result'.list = l

\* C1: every successful append adds exactly one stage, of the argument's
\* kind, at the end and leaves the earlier stages as they were (duplicates
\* included); a successful constructor leaves exactly the kinds of its
\* filters in iteration order, and none for a None or empty argument; no
\* other step changes a list's stages.
C1_OrderPreserved ==
    [][\A l \in ListIds :
        /\ \A o \in ObjIds : (AppendStep(l, o) /\ result'.err = "ok") =>
              /\ Extends(stages[l], stages'[l])
              /\ stages'[l][Len(stages'[l])].kind = KindNamed(objs[o].cls)
        /\ (ConstructStep(l) /\ result'.err = "ok") =>
              LET fs == result'.filters IN
              IF fs = None THEN stages'[l] = <<>>
              ELSE Kinds(stages'[l]) =
                     [i \in 1..Len(fs[1]) |-> KindNamed(objs[fs[1][i]].cls)]
        /\ (pc[l] = "ready" /\ ~(result'.op = "append" /\ result'.list = l)) =>
              stages'[l] = stages[l]
      ]_vars

\* C1 witness: three stages after an append, the first and third of one
\* kind, the second of another.
C1_Witness ==
    /\ result.op = "append" /\ result.err = "ok"
    /\ Len(stages["fl1"]) = 3
    /\ stages["fl1"][1].kind = stages["fl1"][3].kind
    /\ stages["fl1"][2].kind # stages["fl1"][1].kind

\* C2 as claimed: append of an argument that is not a Filter raises an
\* error of the TypeError class.
C2_RaisesTypeError ==
    (result.op = "append" /\ objs[result.arg].cls = "object") =>
        result.err = "TypeError"

\* C2: append of an argument that is not a Filter raises ValueError, and no
\* engine filter is created and no list changes; a constructor whose first
\* element is not a Filter raises ValueError with nothing appended.
C2_RaisesValueError ==
    [][\A l \in ListIds :
        /\ \A o \in ObjIds : (AppendStep(l, o) /\ objs[o].cls = "object") =>
              /\ result'.err = "ValueError"
              /\ stages' = stages
              /\ nfilters' = nfilters
        /\ ( /\ ConstructStep(l)
             /\ result'.filters # None /\ result'.filters # Some(<<>>)
             /\ objs[result'.filters[1][1]].cls = "object" ) =>
              /\ result'.err = "ValueError"
              /\ stages'[l] = <<>>
              /\ nfilters' = nfilters
      ]_vars

\* C2 witness: a list with a stage has just rejected a non-filter.
C2_Witness ==
    /\ result.op = "append" /\ objs[result.arg].cls = "object"
    /\ result.err = "ValueError"
    /\ Len(stages[result.list]) > 0

\* No engine filter is in two places: of two lists, or twice in one list.
NoSharedStage ==
    \A l1, l2 \in ListIds :
        \A i \in 1..Len(stages[l1]), j \in 1..Len(stages[l2]) :
            stages[l1][i].id = stages[l2][j].id => (l1 = l2 /\ i = j)

\* C3: no step (a change of a filter object's level or window, an append of
\* any object to any list) changes the kind or options of a stage already
\* in a list, and no stage is shared between or within lists.
C3_ValueSemantics ==
    [][ /\ \A l \in ListIds : \A i \in 1..Len(stages[l]) :
              pc[l] = "ready" =>
                  /\ Len(stages'[l]) >= i
                  /\ stages'[l][i] = stages[l][i]
        /\ NoSharedStage'
      ]_vars

\* C3 witness: gzip_filter is in both lists and its level was changed
\* afterwards: the stage of the first list keeps the old level.
C3_Witness ==
    /\ result.op = "set_level" /\ result.arg = "a"
    /\ Len(stages["fl1"]) > 0 /\ Len(stages["fl2"]) > 0
    /\ stages["fl1"][1].kind = "GZIP" /\ stages["fl2"][1].kind = "GZIP"
    /\ stages["fl1"][1].opts = {<<"COMPRESSION_LEVEL", -1>>}
    /\ objs["a"].level = Some(5)

C5_ChunkSizeRecorded ==
    \A l \in ListIds : pc[l] = "ready" => max_chunk_size[l] = chunksize[l]

\* C7 as claimed: for an argument that is a Filter the class-to-kind lookup
\* does not raise.
C7_LookupNeverRaises ==
    (result.op = "append" /\ objs[result.arg].cls \in Classes \ {"object"}) =>
        result.err # "KeyError"

\* C8 as claimed: append of a NoOpFilter succeeds and the stage it adds has
\* kind NONE and no option.
C8_NoOpKept ==
    (result.op = "append" /\ objs[result.arg].cls = "NoOpFilter") =>
        /\ result.err = "ok"
        /\ Len(stages[result.list]) > 0
        /\ LET s == stages[result.list][Len(stages[result.list])] IN
              s.kind = "NONE" /\ s.opts = {}

\* The options the kind of f's class recognises, with f's values.
OptionsOf(f) ==
    IF f.cls \in CompressionClasses THEN {<<"COMPRESSION_LEVEL", f.level[1]>>}
    ELSE IF f.cls = "BitWidthReductionFilter"
        THEN {<<"BIT_WIDTH_MAX_WINDOW", f.window[1]>>}
    ELSE IF f.cls = "PositiveDeltaFilter"
        THEN {<<"POSITIVE_DELTA_MAX_WINDOW", f.window[1]>>}
    ELSE {}

StageFor(f, s) ==
    /\ s.kind = KindNamed(f.cls)
    /\ s.opts = OptionsOf(f)
    /\ Cardinality(s.opts) <= 1

\* C9: the stage an append adds has the kind of the argument's class and
\* exactly the option of that kind, with the argument's value: the level for
\* a compression filter, the window for a bit-width-reduction or
\* positive-delta filter, none otherwise; so has every stage a constructor
\* adds.
C9_KindAndOptions ==
    [][\A l \in ListIds :
        /\ \A o \in ObjIds : (AppendStep(l, o) /\ result'.err = "ok") =>
              StageFor(objs[o], stages'[l][Len(stages'[l])])
        /\ (ConstructStep(l) /\ result'.filters # None) =>
              \A i \in 1..Len(stages'[l]) :
                  StageFor(objs[result'.filters[1][i]], stages'[l][i])
      ]_vars

\* C9 witness: after an append a list holds a compression stage with its
\* level and a windowed stage with its window.
C9_Witness ==
    /\ result.op = "append" /\ result.err = "ok"
    /\ \E i, j \in 1..Len(stages["fl1"]) :
          /\ stages["fl1"][i].kind = "RLE"
          /\ stages["fl1"][i].opts = {<<"COMPRESSION_LEVEL", 5>>}
          /\ stages["fl1"][j].kind = "POSITIVE_DELTA"
          /\ stages["fl1"][j].opts = {<<"POSITIVE_DELTA_MAX_WINDOW", 8>>}

\* The first position of fs whose element append does not accept, or
\* Len(fs) + 1.
FirstBad(fs) ==
    LET bad == {i \in 1..Len(fs) : ~Appendable(objs[fs[i]].cls)} IN
    IF bad = {} THEN Len(fs) + 1
    ELSE CHOOSE i \in bad : \A j \in bad : i <= j

\* C10: an append that raises leaves every list's stages as they were; a
\* constructor whose filters has its first bad element after k good ones
\* raises with exactly those k appended, in order.
C10_FailedAppendNoEffect ==
    [][\A l \in ListIds :
        /\ \A o \in ObjIds : (AppendStep(l, o) /\ result'.err # "ok") =>
              stages' = stages /\ nfilters' = nfilters
        /\ (ConstructStep(l) /\ result'.filters # None) =>
              LET fs == result'.filters[1]
                  k == FirstBad(fs) - 1
              IN /\ (result'.err # "ok") <=> (k < Len(fs))
                 /\ Len(stages'[l]) = k
                 /\ \A i \in 1..k : stages'[l][i].kind = KindNamed(objs[fs[i]].cls)
      ]_vars

\* C10 witness: a constructor raised at the third element with the first
\* two appended.
C10_Witness ==
    /\ result.op = "FilterList" /\ result.err # "ok"
    /\ result.filters # None
    /\ Len(result.filters[1]) = 3
    /\ Len(stages[result.list]) = 2

====
